---- MODULE Spec2Model ----
(***************************************************************************)
(* A model of the non-transitive dice game of src/task3.py: the fair       *)
(* random protocol (commit, reveal, combine), the secure random generator  *)
(* it draws from, and the game controller that runs one protocol round per *)
(* decision (who moves first, each dice roll).                             *)
(*                                                                         *)
(* Python values are modelled as follows.                                  *)
(*   str            a sequence of one-character strings                    *)
(*   bytes          a sequence of integers in 0..255                       *)
(*   Optional[T]    a sequence of length <= 1: None is << >>, v is <<v>>   *)
(*   a call's result  [ok |-> TRUE, val |-> v], or                         *)
(*                    [ok |-> FALSE, exc |-> name] when it raises          *)
(* The HMAC-SHA3-256 digest is a symbolic term over the key bytes and the  *)
(* message bytes (an ideal keyed hash: equal digests have equal inputs).   *)
(* The game has four phases: the first-move round, the dice selection and  *)
(* the two roll rounds. `out` holds what the phase in progress has written  *)
(* to and read from the terminal; it starts empty with each phase.         *)
(***************************************************************************)
EXTENDS Integers, Sequences, FiniteSets, TLC

VARIABLES
  dice_list,            \* DiceGame.dice_list: the configured dice
  fair_protocol,        \* the FairRandomProtocol object (its only field)
  computer_dice,        \* DiceGame.computer_dice: Optional index into dice_list
  user_dice,            \* DiceGame.user_dice: Optional index into dice_list
  computer_goes_first,  \* DiceGame.computer_goes_first
  pc,                   \* the position of the running game or call
  max_value,            \* the range of the round in progress
  computer_number,      \* local of the round in progress (Optional)
  hmac_value,           \* local of the round in progress (Optional)
  key,                  \* local of the round in progress (Optional)
  user_number,          \* local of the round in progress (Optional)
  available_dice,       \* local of perform_dice_selection
  computer_roll,        \* local of play_game (Optional)
  user_roll,            \* local of play_game (Optional)
  ret,                  \* what play_game returned, or what run() caught (Optional)
  out,                  \* the terminal's events in the phase in progress
  round,                \* the number of commitments generated so far
  entropy,              \* the numbers and the keys drawn from the OS entropy source
  retries,              \* invalid entries and help requests so far
  call,                 \* the combine_numbers call of the round in progress
                        \* (Optional); in the call harness, the call under test
  result                \* what that call returned or raised (Optional)

vars == <<dice_list, fair_protocol, computer_dice, user_dice, computer_goes_first,
          pc, max_value, computer_number, hmac_value, key, user_number,
          available_dice, computer_roll, user_roll, ret, out, round, entropy,
          retries, call, result>>

gameVars == <<dice_list, computer_dice, user_dice, computer_goes_first, max_value,
              computer_number, hmac_value, key, user_number, available_dice,
              computer_roll, user_roll, ret, out, round, retries>>

----------------------------------------------------------------------------
(* Bounds of the model *)

\* a key is KeyLen bytes long in the model (32 in the program)
KeyLen == 1
\* invalid entries and help requests the user makes in one game
MaxRetries == 1
\* dice configured beyond the required three
ExtraDice == 0
\* the call harness draws its integer arguments from -MaxArg..MaxArg
MaxArg == 7

(* Program constants *)

FaceCount == 6
FirstMoveMax == 1
RollMax == 5
MinDice == 3

----------------------------------------------------------------------------
(* Python values *)

None == << >>
Some(v) == <<v>>
The(o) == o[1]

Ok(v) == [ok |-> TRUE, val |-> v]
Raise(e) == [ok |-> FALSE, exc |-> e]

DIGITS == <<"0", "1", "2", "3", "4", "5", "6", "7", "8", "9">>
HEXDIGITS == <<"0", "1", "2", "3", "4", "5", "6", "7", "8", "9",
               "a", "b", "c", "d", "e", "f">>
LOWER == <<"a", "b", "c", "d", "e", "f", "x">>
UPPER == <<"A", "B", "C", "D", "E", "F", "X">>
WHITESPACE == {" ", "\t"}

IndexOf(seq, c) == CHOOSE i \in 1..Len(seq) : seq[i] = c
Contains(seq, c) == \E i \in 1..Len(seq) : seq[i] = c

\* str(n) for an integer n
RECURSIVE StrNat(_)
StrNat(n) == IF n < 10 THEN <<DIGITS[n + 1]>>
             ELSE StrNat(n \div 10) \o <<DIGITS[(n % 10) + 1]>>
StrOf(n) == IF n < 0 THEN <<"-">> \o StrNat(-n) ELSE StrNat(n)

\* int(s) for a string of decimal digits
RECURSIVE IntOf(_)
IntOf(s) == IF Len(s) = 0 THEN 0
            ELSE 10 * IntOf(SubSeq(s, 1, Len(s) - 1)) + (IndexOf(DIGITS, s[Len(s)]) - 1)

\* s.upper()
UpperChar(c) == IF Contains(LOWER, c) THEN UPPER[IndexOf(LOWER, c)] ELSE c
Upper(s) == [i \in 1..Len(s) |-> UpperChar(s[i])]

\* s.strip()
RECURSIVE LStrip(_)
LStrip(s) == IF Len(s) > 0 /\ s[1] \in WHITESPACE THEN LStrip(Tail(s)) ELSE s
RECURSIVE RStrip(_)
RStrip(s) == IF Len(s) > 0 /\ s[Len(s)] \in WHITESPACE
             THEN RStrip(SubSeq(s, 1, Len(s) - 1)) ELSE s
Strip(s) == RStrip(LStrip(s))

\* s.encode('utf-8') for a string of ASCII digits and '-'
Utf8Char(c) == IF c = "-" THEN 45 ELSE 48 + (IndexOf(DIGITS, c) - 1)
Utf8(s) == [i \in 1..Len(s) |-> Utf8Char(s[i])]

\* b.hex(): two lowercase hexadecimal digits per byte, high nibble first
RECURSIVE Hex(_)
Hex(b) == IF Len(b) = 0 THEN << >>
          ELSE <<HEXDIGITS[(b[1] \div 16) + 1], HEXDIGITS[(b[1] % 16) + 1]>> \o Hex(Tail(b))

\* Python's a % n: the result takes the sign of n; n = 0 raises
PyMod(a, n) == IF n > 0 THEN Ok(a % n)
               ELSE IF n < 0 THEN Ok(0 - ((0 - a) % (0 - n)))
               ELSE Raise("ZeroDivisionError")

----------------------------------------------------------------------------
(* SecureRandomGenerator *)

\* the byte values the model's entropy source yields
KeyBytes == {10, 171}

\* secrets.token_bytes: every key the entropy source can yield
generate_key == [1..KeyLen -> KeyBytes]

\* generate_secure_random that takes a range that is not positive for 0..0
generate_secure_random_clamped(mv) ==
  {Ok(n) : n \in 0..(IF mv < 0 THEN 0 ELSE mv)}

\* secrets.randbelow(max_value + 1): every outcome; randbelow raises ValueError
\* for an upper bound that is not positive, and draws nothing then
generate_secure_random(mv) ==
  IF mv + 1 <= 0 THEN {Raise("ValueError")}
  ELSE {Ok(n) : n \in 0..mv}

\* HMAC-SHA3-256 of the message's UTF-8 bytes under the key, as an uppercase
\* hexadecimal digest (a symbolic term)
calculate_hmac(k, message) ==
  [alg |-> "HMAC-SHA3-256", key |-> k, msg |-> Utf8(message), fmt |-> "HEX-UPPER"]

----------------------------------------------------------------------------
(* FairRandomProtocol *)

\* FairRandomProtocol.__init__
NewFairRandomProtocol(random_gen) == [random_gen |-> random_gen]

\* generate_fair_random with the key drawn again after the digest is computed
generate_fair_random_rekeyed(self, mv) ==
  UNION { IF ~n.ok
          THEN {[self |-> self, res |-> n, drew |-> << >>]}
          ELSE {[self |-> self,
                 res  |-> Ok(<<n.val, calculate_hmac(k[1], StrOf(n.val)), k[2]>>),
                 drew |-> <<"randbelow", "token_bytes", "token_bytes">>]
                : k \in generate_key \X generate_key}
        : n \in generate_secure_random(mv) }

\* generate_fair_random that keeps its first commitment in the object and
\* returns it again on every later call
generate_fair_random_cached(self, mv) ==
  IF "last" \in DOMAIN self
  THEN {[self |-> self, res |-> Ok(self.last), drew |-> << >>]}
  ELSE UNION { IF ~n.ok
               THEN {[self |-> self, res |-> n, drew |-> << >>]}
               ELSE {[self |-> [random_gen |-> self.random_gen,
                                last |-> <<n.val, calculate_hmac(k, StrOf(n.val)), k>>],
                      res  |-> Ok(<<n.val, calculate_hmac(k, StrOf(n.val)), k>>),
                      drew |-> <<"randbelow", "token_bytes">>] : k \in generate_key}
             : n \in generate_secure_random(mv) }

\* Every outcome of self.generate_fair_random(mv): the object after the call,
\* the returned (computer_number, hmac, key) or the exception raised, and the
\* draws made from the entropy source, in order.
generate_fair_random(self, mv) ==
  UNION { IF ~n.ok
          THEN {[self |-> self, res |-> n, drew |-> << >>]}
          ELSE {[self |-> self,
                 res  |-> Ok(<<n.val, calculate_hmac(k, StrOf(n.val)), k>>),
                 drew |-> <<"randbelow", "token_bytes">>] : k \in generate_key}
        : n \in generate_secure_random(mv) }

\* combine_numbers that returns the sum without reducing it
combine_numbers_unreduced(self, cn, un, mv) ==
  [self |-> self, res |-> Ok(cn + un)]

\* combine_numbers that reduces modulo max_value instead of max_value + 1
combine_numbers_offbyone(self, cn, un, mv) ==
  [self |-> self, res |-> PyMod(cn + un, mv)]

\* self.combine_numbers(cn, un, mv): the object after the call and the result
combine_numbers(self, cn, un, mv) ==
  [self |-> self, res |-> PyMod(cn + un, mv + 1)]

\* the entropy source's counters after the draws `drew`
RECURSIVE Drawn(_, _)
Drawn(e, drew) ==
  IF Len(drew) = 0 THEN e
  ELSE Drawn([e EXCEPT ![drew[1]] = @ + 1], Tail(drew))

NoEntropy == [randbelow |-> 0, token_bytes |-> 0]

----------------------------------------------------------------------------
(* The call harness: one call of the protocol's interface on drawn arguments *)

Args == (0 - MaxArg)..MaxArg

ApiCalls ==
  {[op |-> "combine_numbers", args |-> <<c, u, m>>] : c \in Args, u \in Args, m \in Args}
  \cup {[op |-> "generate_secure_random", args |-> <<m>>] : m \in Args}
  \cup {[op |-> "generate_fair_random", args |-> <<m>>] : m \in Args}

NoGame ==
  /\ dice_list = << >>
  /\ computer_dice = None /\ user_dice = None
  /\ computer_goes_first = FALSE
  /\ max_value = None
  /\ computer_number = None /\ hmac_value = None /\ key = None
  /\ user_number = None
  /\ available_dice = << >>
  /\ computer_roll = None /\ user_roll = None
  /\ ret = None
  /\ out = << >>
  /\ round = 0
  /\ retries = 0

InitApi ==
  /\ NoGame
  /\ fair_protocol = NewFairRandomProtocol("SecureRandomGenerator")
  /\ entropy = NoEntropy
  /\ pc = "api_call"
  /\ call \in {Some(c) : c \in ApiCalls}
  /\ result = None

ApiCombineNumbers ==
  /\ pc = "api_call"
  /\ The(call).op = "combine_numbers"
  /\ LET a == The(call).args
         o == combine_numbers(fair_protocol, a[1], a[2], a[3])
     IN /\ fair_protocol' = o.self
        /\ result' = Some(o.res)
  /\ pc' = "api_done"
  /\ UNCHANGED <<gameVars, entropy, call>>

ApiGenerateSecureRandom ==
  /\ pc = "api_call"
  /\ The(call).op = "generate_secure_random"
  /\ \E o \in generate_secure_random(The(call).args[1]) :
        /\ result' = Some(o)
        /\ entropy' = Drawn(entropy, IF o.ok THEN <<"randbelow">> ELSE << >>)
  /\ pc' = "api_done"
  /\ UNCHANGED <<gameVars, fair_protocol, call>>

ApiGenerateFairRandom ==
  /\ pc = "api_call"
  /\ The(call).op = "generate_fair_random"
  /\ \E o \in generate_fair_random(fair_protocol, The(call).args[1]) :
        /\ fair_protocol' = o.self
        /\ result' = Some(o.res)
        /\ entropy' = Drawn(entropy, o.drew)
  /\ pc' = "api_done"
  /\ UNCHANGED <<gameVars, call>>

NextApi == ApiCombineNumbers \/ ApiGenerateSecureRandom \/ ApiGenerateFairRandom

SpecApi == InitApi /\ [][NextApi]_vars

----------------------------------------------------------------------------
(* Dice *)

\* Dice.__init__
Dice(faces) == IF Len(faces) # FaceCount THEN Raise("ValueError")
               ELSE Ok([faces |-> faces])

\* Dice.get_face_value: index is 0-based
get_face_value(dice, index) ==
  IF ~(0 <= index /\ index <= 5) THEN Raise("ValueError")
  ELSE Ok(dice.faces[index + 1])

\* The dice of the configurations the model plays: the three of the usage
\* example, then further ones.
Die(i) == CASE i = 1 -> Dice(<<2, 2, 4, 4, 9, 9>>).val
            [] i = 2 -> Dice(<<6, 8, 1, 1, 8, 6>>).val
            [] i = 3 -> Dice(<<7, 5, 3, 7, 5, 3>>).val
            [] OTHER -> Dice([j \in 1..FaceCount |-> (i * j) % 10]).val

\* what parse_dice_list returns: at least three dice of six faces each
DiceLists == {[i \in 1..n |-> Die(i)] : n \in MinDice..(MinDice + ExtraDice)}

----------------------------------------------------------------------------
(* DiceConfigParser *)

\* s.split(sep) for a one-character separator
RECURSIVE Split(_, _)
Split(s, sep) ==
  IF ~Contains(s, sep) THEN <<s>>
  ELSE LET i == CHOOSE k \in 1..Len(s) :
                  s[k] = sep /\ \A j \in 1..(k - 1) : s[j] # sep
       IN <<SubSeq(s, 1, i - 1)>> \o Split(SubSeq(s, i + 1, Len(s)), sep)

\* ParseFace that reads a token that is no integer as 0
ParseFace_lenient(tok) ==
  LET t == Strip(tok)
      body == IF Len(t) > 0 /\ t[1] \in {"+", "-"} THEN Tail(t) ELSE t
  IN IF Len(body) > 0 /\ \A i \in 1..Len(body) : Contains(DIGITS, body[i])
     THEN Ok(IF t[1] = "-" THEN 0 - IntOf(body) ELSE IntOf(body))
     ELSE Ok(0)

\* int(x.strip()): an optional sign and decimal digits, or ValueError
\* ("invalid literal")
ParseFace(tok) ==
  LET t == Strip(tok)
      body == IF Len(t) > 0 /\ t[1] \in {"+", "-"} THEN Tail(t) ELSE t
  IN IF Len(body) > 0 /\ \A i \in 1..Len(body) : Contains(DIGITS, body[i])
     THEN Ok(IF t[1] = "-" THEN 0 - IntOf(body) ELSE IntOf(body))
     ELSE Raise("ValueError")

\* [int(x.strip()) for x in arg.split(',')]
ParseFaces(arg) ==
  LET toks == Split(arg, ",")
      parsed == [i \in 1..Len(toks) |-> ParseFace(toks[i])]
  IN IF \E i \in 1..Len(toks) : ~parsed[i].ok THEN Raise("ValueError")
     ELSE Ok([i \in 1..Len(toks) |-> parsed[i].val])

\* DiceConfigParser.parse_dice_list: the list of Dice, or ValueError (every
\* failure of it is a ValueError, re-raised or its own)
parse_dice_list(args) ==
  IF Len(args) < MinDice THEN Raise("ValueError")
  ELSE LET per == [i \in 1..Len(args) |->
                     LET f == ParseFaces(args[i])
                     IN IF ~f.ok THEN f
                        ELSE IF Len(f.val) # 6 THEN Raise("ValueError")
                        ELSE Dice(f.val)]
       IN IF \E i \in 1..Len(args) : ~per[i].ok THEN Raise("ValueError")
          ELSE Ok([i \in 1..Len(args) |-> per[i].val])

\* ','.join(map(str, faces)), the form of a dice on the command line
RECURSIVE JoinFaces(_)
JoinFaces(faces) ==
  IF Len(faces) = 0 THEN << >>
  ELSE IF Len(faces) = 1 THEN StrOf(faces[1])
  ELSE StrOf(faces[1]) \o <<",">> \o JoinFaces(Tail(faces))

\* the command line that configures a dice list
ArgvOf(dl) == [i \in 1..Len(dl) |-> JoinFaces(dl[i].faces)]

\* the command lines the model starts the program with: those of DiceLists,
\* one of them also written with blanks and a sign, and ones that must be refused
Argvs ==
  LET good == ArgvOf([i \in 1..MinDice |-> Die(i)])
      third(arg) == [good EXCEPT ![3] = arg]
  IN {ArgvOf(dl) : dl \in DiceLists}
     \cup {third(<<" ", "7", ",", "5", " ", ",", "+", "3", ",", "7", ",", "5", ",", "3">>)}
     \cup {<< >>, SubSeq(good, 1, 2),
           third(JoinFaces(<<7, 5, 3, 7, 5>>)),
           third(JoinFaces(<<7, 5, 3, 7, 5, 3, 1>>)),
           third(<<"7", ",", "5", ",", "a", ",", "7", ",", "5", ",", "3">>),
           third(<<"7", ",", "5", ",", "1", ".", "5", ",", "7", ",", "5", ",", "3">>),
           third(<<"7", ",", "5", ",", ",", "7", ",", "5", ",", "3">>),
           third(<<"a", ",", "5">>),
           third(<< >>)}

----------------------------------------------------------------------------
(* DiceGame: input and output *)

\* the lines the user may type at a prompt
Inputs == {<<"0">>, <<"1">>, <<"2">>, <<"3">>, <<"4">>, <<"5">>, <<"6">>,
           <<"x">>, <<"?">>, <<" ", "1", "\t">>}

\* an event of the terminal: a line written to stdout, a prompt, a line read
Ev(kind, r, data) == [ev |-> kind, round |-> r, data |-> data]

\* display_menu's options for range(n)
RangeOptions(n) == [i \in 1..n |-> StrOf(i - 1)]

\* get_user_choice: what input(prompt).strip().upper() makes of the line typed
Choice(raw) == Upper(Strip(raw))

\* Accepted that lets every number through, whatever the options
Accepted_lenient(choice, options) ==
  \/ choice \in {<<"X">>, <<"?">>}
  \/ Len(choice) > 0 /\ \A i \in 1..Len(choice) : Contains(DIGITS, choice[i])

\* get_user_choice: whether the loop returns the choice (else it asks again)
Accepted(choice, options) ==
  choice \in {StrOf(i) : i \in 0..(Len(options) - 1)} \cup {<<"X">>, <<"?">>}

\* one pass of get_user_choice's loop: the prompt and the line read
Asked(r, raw) == <<Ev("prompt", r, << >>), Ev("input", r, <<raw>>)>>

\* list.remove(x): the list without the first occurrence of x
RECURSIVE Remove(_, _)
Remove(list, x) ==
  IF Len(list) = 0 THEN << >>
  ELSE IF list[1] = x THEN Tail(list)
  ELSE <<list[1]>> \o Remove(Tail(list), x)

\* CommitLines without the digest: the menu alone
CommitLines_unpublished(r, c, mv) == <<Ev("menu", r, RangeOptions(mv + 1))>>

\* CommitLines that shows the number and the key along with the digest
CommitLines_leaky(r, c, mv) ==
  <<Ev("hmac", r, <<c[2]>>),
    Ev("reveal", r, <<StrOf(c[1]), Upper(Hex(c[3]))>>),
    Ev("menu", r, RangeOptions(mv + 1))>>

\* what a round writes once it has its commitment c = (number, hmac, key):
\* the digest, then the menu of the numbers the user may answer
CommitLines(r, c, mv) == <<Ev("hmac", r, <<c[2]>>),
                           Ev("menu", r, RangeOptions(mv + 1))>>

\* AfterNumber that leaves the computer's roll round without its reveal
AfterNumber_skipped(player) ==
  IF player = "my" THEN "your_roll" ELSE player \o "_roll_reveal"

\* where perform_roll goes once the user's number is read: on to the reveal
AfterNumber(player) == player \o "_roll_reveal"

\* the line that reveals a commitment: the number and the key in uppercase hex
Reveal(r, number, k) == Ev("reveal", r, <<StrOf(number), Upper(Hex(k))>>)

----------------------------------------------------------------------------
(* DiceGame: one game *)

\* main() after parse_dice_list, DiceGame.__init__, and run() calling play_game
Init ==
  /\ dice_list \in DiceLists
  /\ fair_protocol = NewFairRandomProtocol("SecureRandomGenerator")
  /\ computer_dice = None /\ user_dice = None
  /\ computer_goes_first = FALSE
  /\ pc = "determine_first_player"
  /\ max_value = None
  /\ computer_number = None /\ hmac_value = None /\ key = None
  /\ user_number = None
  /\ available_dice = << >>
  /\ computer_roll = None /\ user_roll = None
  /\ ret = None
  /\ out = << >>
  /\ round = 0
  /\ entropy = NoEntropy
  /\ retries = 0
  /\ call = None
  /\ result = None

\* the locals of a round are gone when its function returns
RoundOver ==
  /\ max_value' = None
  /\ computer_number' = None /\ hmac_value' = None /\ key' = None
  /\ user_number' = None

\* run() catches an exception that escapes play_game, and the game is over
Caught(exc) ==
  /\ pc' = "done"
  /\ ret' = Some(Raise(exc))
  /\ out' = Append(out, Ev("error", round, <<exc>>))
  /\ RoundOver

\* determine_first_player up to its menu: commit to a number in 0..1 and
\* publish the digest
determine_first_player_commit ==
  /\ pc = "determine_first_player"
  /\ \E o \in generate_fair_random(fair_protocol, FirstMoveMax) :
       /\ fair_protocol' = o.self
       /\ entropy' = Drawn(entropy, o.drew)
       /\ IF o.res.ok
          THEN /\ computer_number' = Some(o.res.val[1])
               /\ hmac_value' = Some(o.res.val[2])
               /\ key' = Some(o.res.val[3])
               /\ max_value' = Some(FirstMoveMax)
               /\ user_number' = None
               /\ round' = round + 1
               /\ out' = CommitLines(round + 1, o.res.val, FirstMoveMax)
               /\ pc' = "first_choice"
               /\ UNCHANGED ret
          ELSE Caught(o.res.exc) /\ UNCHANGED round
  /\ call' = None /\ result' = None
  /\ UNCHANGED <<dice_list, computer_dice, user_dice, computer_goes_first,
                 available_dice, computer_roll, user_roll, retries>>

\* determine_first_player's loop: one line read from the user
determine_first_player_choice ==
  /\ pc = "first_choice"
  /\ \E raw \in Inputs :
       LET choice == Choice(raw)
           options == RangeOptions(FirstMoveMax + 1)
           asked == out \o Asked(round, raw)
       IN IF ~Accepted(choice, options)
          THEN /\ retries < MaxRetries
               /\ retries' = retries + 1
               /\ out' = Append(asked, Ev("invalid", round, << >>))
               /\ UNCHANGED <<pc, max_value, computer_number, hmac_value, key,
                              user_number, computer_goes_first>>
          ELSE IF choice = <<"X">>
          THEN \* return False, which play_game takes as "the user moves first"
               /\ out' = asked
               /\ computer_goes_first' = FALSE
               /\ RoundOver
               /\ pc' = "perform_dice_selection"
               /\ UNCHANGED retries
          ELSE IF choice = <<"?">>
          THEN /\ retries < MaxRetries
               /\ retries' = retries + 1
               /\ out' = Append(asked, Ev("help", round, << >>))
               /\ UNCHANGED <<pc, max_value, computer_number, hmac_value, key,
                              user_number, computer_goes_first>>
          ELSE /\ user_number' = Some(IntOf(choice))
               /\ out' = asked
               /\ pc' = "first_reveal"
               /\ UNCHANGED <<retries, max_value, computer_number, hmac_value, key,
                              computer_goes_first>>
  /\ UNCHANGED <<dice_list, fair_protocol, computer_dice, user_dice, available_dice,
                 computer_roll, user_roll, ret, round, entropy, call, result>>

\* FirstMover that takes a right guess for a wrong one
FirstMover_inverted(cn, un, combined) == un = cn

\* FirstMover that compares the guess with the combined number
FirstMover_combined(cn, un, combined) == un # combined

\* computer_goes_first of determine_first_player: the guess differs from the
\* computer's number (the combined number is computed and not used)
FirstMover(cn, un, combined) == un # cn

\* determine_first_player after the user's number: combine, reveal, decide
determine_first_player_reveal ==
  /\ pc = "first_reveal"
  /\ LET cn == The(computer_number)
         un == The(user_number)
         o == combine_numbers(fair_protocol, cn, un, FirstMoveMax)
     IN /\ fair_protocol' = o.self
        /\ call' = Some([op |-> "combine_numbers", args |-> <<cn, un, FirstMoveMax>>])
        /\ result' = Some(o.res)
        /\ IF o.res.ok
           THEN /\ computer_goes_first' = FirstMover(cn, un, o.res.val)
                /\ out' = out \o <<Reveal(round, cn, The(key)),
                                   Ev("first", round,
                                      <<IF FirstMover(cn, un, o.res.val)
                                        THEN "computer" ELSE "user">>)>>
                /\ RoundOver
                /\ pc' = "perform_dice_selection"
                /\ UNCHANGED ret
           ELSE Caught(o.res.exc) /\ UNCHANGED computer_goes_first
  /\ UNCHANGED <<dice_list, computer_dice, user_dice, available_dice, computer_roll,
                 user_roll, round, entropy, retries>>

\* computer_select_dice: an index below len(available_dice), every outcome
computer_select_dice(available) == generate_secure_random(Len(available) - 1)

\* perform_dice_selection up to user_select_dice's menu: when the computer
\* moves first it chooses its dice before the user is asked
perform_dice_selection_begin ==
  /\ pc = "perform_dice_selection"
  /\ LET all == [i \in 1..Len(dice_list) |-> i - 1]
     IN IF computer_goes_first
        THEN \E c \in computer_select_dice(all) :
               IF c.ok
               THEN /\ entropy' = Drawn(entropy, <<"randbelow">>)
                    /\ computer_dice' = Some(c.val)
                    /\ available_dice' = Remove(all, c.val)
                    /\ out' = <<Ev("choose", round, <<"computer", c.val>>),
                                Ev("menu", round, Remove(all, c.val))>>
                    /\ pc' = "dice_choice"
                    /\ UNCHANGED <<ret, max_value, computer_number, hmac_value, key,
                                   user_number>>
               ELSE Caught(c.exc) /\ UNCHANGED <<entropy, computer_dice, available_dice>>
        ELSE /\ available_dice' = all
             /\ out' = <<Ev("menu", round, all)>>
             /\ pc' = "dice_choice"
             /\ UNCHANGED <<entropy, computer_dice, ret, max_value, computer_number,
                            hmac_value, key, user_number>>
  /\ UNCHANGED <<dice_list, fair_protocol, user_dice, computer_goes_first,
                 computer_roll, user_roll, round, retries, call, result>>

\* ProbabilityCalculator.calculate_win_probability: wins / total, kept as the
\* pair of the two counts
calculate_win_probability(dice1, dice2) ==
  <<Cardinality({f \in (1..Len(dice1.faces)) \X (1..Len(dice2.faces)) :
                   dice1.faces[f[1]] > dice2.faces[f[2]]}),
    Len(dice1.faces) * Len(dice2.faces)>>

\* TableGenerator.generate_probability_table: one row per dice, "-" on the diagonal
generate_probability_table(dl) ==
  [i \in 1..Len(dl) |->
     [j \in 1..Len(dl) |->
        IF i = j THEN <<"-">> ELSE calculate_win_probability(dl[i], dl[j])]]

\* user_select_dice's loop: one line read from the user; then the rest of
\* perform_dice_selection, where the computer chooses if the user moved first
user_select_dice_choice ==
  /\ pc = "dice_choice"
  /\ \E raw \in Inputs :
       LET choice == Choice(raw)
           asked == out \o Asked(round, raw)
       IN IF ~Accepted(choice, available_dice)
          THEN /\ retries < MaxRetries
               /\ retries' = retries + 1
               /\ out' = Append(asked, Ev("invalid", round, << >>))
               /\ UNCHANGED <<pc, ret, user_dice, computer_dice, available_dice, entropy>>
          ELSE IF choice = <<"X">>
          THEN \* user_select_dice returns None and play_game returns False
               /\ out' = asked
               /\ pc' = "done"
               /\ ret' = Some(Ok(FALSE))
               /\ UNCHANGED <<retries, user_dice, computer_dice, available_dice, entropy>>
          ELSE IF choice = <<"?">>
          THEN /\ retries < MaxRetries
               /\ retries' = retries + 1
               /\ out' = Append(asked, Ev("table", round,
                                          generate_probability_table(dice_list)))
               /\ UNCHANGED <<pc, ret, user_dice, computer_dice, available_dice, entropy>>
          ELSE LET user_choice == available_dice[IntOf(choice) + 1]
                   chosen == Append(asked, Ev("choose", round, <<"user", user_choice>>))
                   rest == Remove(available_dice, user_choice)
               IN /\ user_dice' = Some(user_choice)
                  /\ UNCHANGED retries
                  /\ IF computer_goes_first
                     THEN /\ out' = chosen
                          /\ pc' = "my_roll"
                          /\ UNCHANGED <<ret, computer_dice, available_dice, entropy>>
                     ELSE \E c \in computer_select_dice(rest) :
                            IF c.ok
                            THEN /\ entropy' = Drawn(entropy, <<"randbelow">>)
                                 /\ available_dice' = rest
                                 /\ computer_dice' = Some(c.val)
                                 /\ out' = Append(chosen,
                                                  Ev("choose", round, <<"computer", c.val>>))
                                 /\ pc' = "my_roll"
                                 /\ UNCHANGED ret
                            ELSE /\ pc' = "done"
                                 /\ ret' = Some(Raise(c.exc))
                                 /\ out' = Append(chosen, Ev("error", round, <<c.exc>>))
                                 /\ available_dice' = rest
                                 /\ UNCHANGED <<entropy, computer_dice>>
  /\ UNCHANGED <<dice_list, fair_protocol, computer_goes_first, max_value,
                 computer_number, hmac_value, key, user_number, computer_roll,
                 user_roll, round, call, result>>

\* RollDice that rolls the other player's dice
RollDice_swapped(player) ==
  dice_list[The(IF player = "my" THEN user_dice ELSE computer_dice) + 1]

\* the dice perform_roll is called with: the computer's for "my", the user's
\* for "your"
RollDice(player) ==
  dice_list[The(IF player = "my" THEN computer_dice ELSE user_dice) + 1]

\* perform_roll up to its menu: commit to a number in 0..5 and publish the digest
perform_roll_commit(player) ==
  /\ pc = player \o "_roll"
  /\ \E o \in generate_fair_random(fair_protocol, RollMax) :
       /\ fair_protocol' = o.self
       /\ entropy' = Drawn(entropy, o.drew)
       /\ IF o.res.ok
          THEN /\ computer_number' = Some(o.res.val[1])
               /\ hmac_value' = Some(o.res.val[2])
               /\ key' = Some(o.res.val[3])
               /\ max_value' = Some(RollMax)
               /\ user_number' = None
               /\ round' = round + 1
               /\ out' = CommitLines(round + 1, o.res.val, RollMax)
               /\ pc' = player \o "_roll_choice"
               /\ UNCHANGED ret
          ELSE Caught(o.res.exc) /\ UNCHANGED round
  /\ call' = None /\ result' = None
  /\ UNCHANGED <<dice_list, computer_dice, user_dice, computer_goes_first,
                 available_dice, computer_roll, user_roll, retries>>

\* perform_roll's loop: one line read from the user
perform_roll_choice(player) ==
  /\ pc = player \o "_roll_choice"
  /\ \E raw \in Inputs :
       LET choice == Choice(raw)
           options == RangeOptions(RollMax + 1)
           asked == out \o Asked(round, raw)
       IN IF ~Accepted(choice, options)
          THEN /\ retries < MaxRetries
               /\ retries' = retries + 1
               /\ out' = Append(asked, Ev("invalid", round, << >>))
               /\ UNCHANGED <<pc, ret, max_value, computer_number, hmac_value, key,
                              user_number>>
          ELSE IF choice = <<"X">>
          THEN \* perform_roll returns None and play_game returns False
               /\ out' = asked
               /\ RoundOver
               /\ pc' = "done"
               /\ ret' = Some(Ok(FALSE))
               /\ UNCHANGED retries
          ELSE IF choice = <<"?">>
          THEN /\ retries < MaxRetries
               /\ retries' = retries + 1
               /\ out' = Append(asked, Ev("help", round, << >>))
               /\ UNCHANGED <<pc, ret, max_value, computer_number, hmac_value, key,
                              user_number>>
          ELSE /\ user_number' = Some(IntOf(choice))
               /\ out' = asked
               /\ pc' = AfterNumber(player)
               /\ UNCHANGED <<retries, ret, max_value, computer_number, hmac_value, key>>
  /\ UNCHANGED <<dice_list, fair_protocol, computer_dice, user_dice,
                 computer_goes_first, available_dice, computer_roll, user_roll,
                 round, entropy, call, result>>

\* AfterRoll that rolls again and again
AfterRoll_again(player) == "my_roll"

\* AfterRoll that compares after the computer's roll
AfterRoll_swapped(player) == IF player = "my" THEN "compare" ELSE "your_roll"

\* play_game after a roll that gave a value: the user's roll after the
\* computer's, the comparison after the user's
AfterRoll(player) == IF player = "my" THEN "your_roll" ELSE "compare"

\* perform_roll after the user's number: combine, look the face up, reveal
perform_roll_reveal(player) ==
  /\ pc = player \o "_roll_reveal"
  /\ LET cn == The(computer_number)
         un == The(user_number)
         o == combine_numbers(fair_protocol, cn, un, RollMax)
         face == IF o.res.ok THEN get_face_value(RollDice(player), o.res.val) ELSE o.res
     IN /\ fair_protocol' = o.self
        /\ call' = Some([op |-> "combine_numbers", args |-> <<cn, un, RollMax>>])
        /\ result' = Some(o.res)
        /\ IF face.ok
           THEN /\ out' = out \o <<Reveal(round, cn, The(key)),
                                   Ev("roll", round, <<player, o.res.val, face.val>>)>>
                /\ RoundOver
                /\ IF player = "my"
                   THEN /\ computer_roll' = Some(face.val)
                        /\ UNCHANGED user_roll
                   ELSE /\ user_roll' = Some(face.val)
                        /\ UNCHANGED computer_roll
                /\ pc' = AfterRoll(player)
                /\ UNCHANGED ret
           ELSE Caught(face.exc) /\ UNCHANGED <<computer_roll, user_roll>>
  /\ UNCHANGED <<dice_list, computer_dice, user_dice, computer_goes_first,
                 available_dice, round, entropy, retries>>

\* Outcome that gives the win to the lower roll
Outcome_swapped(u, c) == IF u < c THEN "user" ELSE IF c < u THEN "computer" ELSE "tie"

\* the comparison of play_game: who wins
Outcome(u, c) == IF u > c THEN "user" ELSE IF c > u THEN "computer" ELSE "tie"

\* play_game after both rolls: announce the outcome and return True
play_game_compare ==
  /\ pc = "compare"
  /\ LET u == The(user_roll)
         c == The(computer_roll)
     IN out' = Append(out, Ev("outcome", round, <<Outcome(u, c)>>))
  /\ pc' = "done"
  /\ ret' = Some(Ok(TRUE))
  /\ UNCHANGED <<dice_list, fair_protocol, computer_dice, user_dice,
                 computer_goes_first, max_value, computer_number, hmac_value, key,
                 user_number, available_dice, computer_roll, user_roll, round,
                 entropy, retries, call, result>>

Next ==
  \/ determine_first_player_commit
  \/ determine_first_player_choice
  \/ determine_first_player_reveal
  \/ perform_dice_selection_begin
  \/ user_select_dice_choice
  \/ \E player \in {"my", "your"} : perform_roll_commit(player)
  \/ \E player \in {"my", "your"} : perform_roll_choice(player)
  \/ \E player \in {"my", "your"} : perform_roll_reveal(player)
  \/ play_game_compare

Spec == Init /\ [][Next]_vars

----------------------------------------------------------------------------
(* The program from its command line *)

InitMain ==
  /\ NoGame
  /\ fair_protocol = NewFairRandomProtocol("SecureRandomGenerator")
  /\ entropy = NoEntropy
  /\ pc = "main"
  /\ call = None
  /\ result = None

\* main(): refuse an empty command line; parse the dice; on ValueError show the
\* error and stop; else construct the game and run it
main ==
  /\ pc = "main"
  /\ \E args \in Argvs :
       IF Len(args) < 1
       THEN /\ call' = Some([op |-> "main", args |-> <<args>>])
            /\ result' = None
            /\ out' = <<Ev("error", 0, <<"no dice">>)>>
            /\ pc' = "done"
            /\ UNCHANGED dice_list
       ELSE LET r == parse_dice_list(args)
            IN /\ call' = Some([op |-> "parse_dice_list", args |-> <<args>>])
               /\ result' = Some(r)
               /\ IF r.ok
                  THEN /\ dice_list' = r.val
                       /\ out' = << >>
                       /\ pc' = "determine_first_player"
                  ELSE /\ dice_list' = << >>
                       /\ out' = <<Ev("error", 0, <<r.exc>>)>>
                       /\ pc' = "done"
  /\ UNCHANGED <<fair_protocol, computer_dice, user_dice, computer_goes_first,
                 max_value, computer_number, hmac_value, key, user_number,
                 available_dice, computer_roll, user_roll, ret, round, entropy,
                 retries>>

NextMain == main \/ Next

SpecMain == InitMain /\ [][NextMain]_vars

----------------------------------------------------------------------------
(* The protocol's rounds as the user sees them *)

\* a round is in progress: its commitment is made and not yet revealed
InRound == pc \in {"first_choice", "first_reveal",
                   "my_roll_choice", "my_roll_reveal",
                   "your_roll_choice", "your_roll_reveal"}

\* the range of round r: the first round decides the first move
RoundMax(r) == IF r = 1 THEN FirstMoveMax ELSE RollMax

\* the event is a line read in which the user gives a number of the round's range
NumberInput(e) ==
  /\ e.ev = "input"
  /\ Choice(e.data[1]) \in {StrOf(n) : n \in 0..RoundMax(e.round)}

\* the event is a line read in which the user exits
ExitInput(e) == e.ev = "input" /\ Choice(e.data[1]) = <<"X">>

\* the event shows the committed number, or something that tells it
Discloses(e) == e.ev \in {"reveal", "first", "roll"}

\* bytes.fromhex, as an observer applies it to the key shown
LowerChar(c) == IF Contains(UPPER, c) THEN LOWER[IndexOf(UPPER, c)] ELSE c
HexVal(c) == IndexOf(HEXDIGITS, LowerChar(c)) - 1
RECURSIVE FromHex(_)
FromHex(s) == IF Len(s) < 2 THEN << >>
              ELSE <<16 * HexVal(s[1]) + HexVal(s[2])>> \o FromHex(SubSeq(s, 3, Len(s)))

\* C1: in every round the number and the key are drawn and the digest is
\* computed and written to the terminal before the user is asked for a number:
\* every prompt and every line read in a round comes after that round's digest.
C1_CommitBeforeInput ==
  InRound =>
    /\ computer_number # None /\ key # None /\ hmac_value # None
    /\ \A i \in 1..Len(out) :
         out[i].ev \in {"prompt", "input"} =>
           \E j \in 1..(i - 1) : out[j] = Ev("hmac", round, <<The(hmac_value)>>)
    /\ user_number # None =>
         \E j \in 1..Len(out) : out[j] = Ev("hmac", round, <<The(hmac_value)>>)

\* C1's case: the user's number of the second roll round has been read
C1_Witness ==
  /\ pc = "your_roll_reveal"
  /\ user_number = Some(4)
  /\ out[1].ev = "hmac"
  /\ \E i \in 2..Len(out) : NumberInput(out[i])

\* C2: nothing that tells the committed number or the key is written before
\* the user's number of that round has been read, and a round the user exits
\* from writes no such line at all.
C2_SecrecyUntilReveal ==
  /\ \A i \in 1..Len(out) :
       Discloses(out[i]) =>
         /\ out[i].round = round
         /\ \E j \in 1..(i - 1) : NumberInput(out[j]) /\ out[j].round = out[i].round
  /\ (\E j \in 1..Len(out) : ExitInput(out[j])) =>
       \A i \in 1..Len(out) : ~Discloses(out[i])

\* C2's case: the user has exited from a roll round after seeing its digest
C2_Witness ==
  /\ pc = "done"
  /\ ret = Some(Ok(FALSE))
  /\ round = 2
  /\ out[1].ev = "hmac"
  /\ ExitInput(out[Len(out)])
  /\ computer_number = None /\ key = None

\* C3: the digest of a commitment is the HMAC of the committed number's decimal
\* string under the commitment's key, and the number and key a round reveals
\* reproduce the digest the round published: an observer who decodes the key
\* shown and recomputes the HMAC of the number shown gets that digest.
C3_CommitmentRoundTrip ==
  /\ hmac_value # None =>
       The(hmac_value) = calculate_hmac(The(key), StrOf(The(computer_number)))
  /\ \A i \in 1..Len(out) :
       out[i].ev = "reveal" =>
         \E j \in 1..(i - 1) :
           /\ out[j].ev = "hmac"
           /\ out[j].round = out[i].round
           /\ out[j].data[1] = calculate_hmac(FromHex(out[i].data[2]), out[i].data[1])

\* C3's case: a roll round has revealed the number 3 and the key 0A
C3_Witness ==
  /\ pc = "your_roll"
  /\ \E i \in 1..Len(out) :
       /\ out[i].ev = "reveal"
       /\ out[i].data = << <<"3">>, <<"0", "A">> >>
       /\ out[1].data[1] = calculate_hmac(<<10>>, <<"3">>)

\* a step that generates a commitment
Commits == round' # round

\* C9: the protocol object is the same after every step of a game; each
\* commitment generated draws one new number and one new key from the entropy
\* source and hashes them; and what a round combines and reveals is the number
\* and the key of the commitment generated in that same round.
C9_ProtocolStateless ==
  [][ /\ fair_protocol' = fair_protocol
      /\ Commits =>
           /\ round' = round + 1
           /\ entropy'.randbelow = entropy.randbelow + 1
           /\ entropy'.token_bytes = entropy.token_bytes + 1
           /\ hmac_value' = Some(calculate_hmac(The(key'), StrOf(The(computer_number'))))
           /\ out'[1] = Ev("hmac", round', <<The(hmac_value')>>)
      /\ (call' # call /\ call' # None) =>
           /\ The(call').args[1] = The(computer_number)
           /\ \E i \in 1..Len(out') : out'[i] = Reveal(round, The(computer_number), The(key))
           /\ out'[1] = Ev("hmac", round, <<The(hmac_value)>>)
    ]_vars

\* C9's case: three commitments were generated in one game
C9_Witness ==
  /\ pc = "compare"
  /\ round = 3
  /\ entropy.token_bytes = 3
  /\ fair_protocol = NewFairRandomProtocol("SecureRandomGenerator")

\* C10: a commitment is generated only when no commitment is outstanding, and
\* an outstanding commitment ends only by its reveal (number and key shown) or
\* by the user's exit.
C10_OneOutstanding ==
  [][ /\ Commits => (computer_number = None /\ hmac_value = None /\ key = None)
      /\ (hmac_value # None /\ hmac_value' = None) =>
           \/ \E i \in 1..Len(out') :
                out'[i] = Reveal(round, The(computer_number), The(key))
           \/ ExitInput(out'[Len(out')])
      /\ (hmac_value # None) <=> InRound
    ]_vars

\* C10's case: the third commitment is outstanding, the two before it revealed
C10_Witness ==
  /\ pc = "your_roll_choice"
  /\ round = 3
  /\ hmac_value # None
  /\ computer_roll # None

----------------------------------------------------------------------------
(* The protocol's interface, one call at a time *)

\* the call under test has returned or raised
Called(op) == pc = "api_done" /\ The(call).op = op

\* C5: for max_value >= 0 and both numbers in 0..max_value, combine_numbers
\* returns (computer_number + user_number) mod (max_value + 1), which lies in
\* 0..max_value, and the call with the two numbers swapped returns the same.
C5_CombineNumbers ==
  Called("combine_numbers") =>
    LET c == The(call).args[1]
        u == The(call).args[2]
        m == The(call).args[3]
    IN (m >= 0 /\ c \in 0..m /\ u \in 0..m) =>
         /\ The(result) = Ok((c + u) % (m + 1))
         /\ The(result).val \in 0..m
         /\ combine_numbers(fair_protocol, u, c, m).res = The(result)

\* C5's case: committed 3 and the user's 4 over 0..5 have combined to 1
C5_Witness ==
  /\ Called("combine_numbers")
  /\ The(call).args = <<3, 4, 5>>
  /\ The(result) = Ok(1)

\* C6: combine_numbers raises, and returns no value, whenever one of the two
\* numbers lies outside 0..max_value (stated for the ranges the protocol
\* defines, max_value >= 0).
C6_OutOfRangeFails ==
  Called("combine_numbers") =>
    LET c == The(call).args[1]
        u == The(call).args[2]
        m == The(call).args[3]
    IN (m >= 0 /\ (c \notin 0..m \/ u \notin 0..m)) => ~The(result).ok

\* C7: for max_value >= 0 and a fixed user number in 0..max_value, combining is
\* a bijection of 0..max_value in the committed number: the result returned is
\* the result of no other committed number, and every value of the range is
\* the result of some committed number.
C7_CombineBijection ==
  Called("combine_numbers") =>
    LET c == The(call).args[1]
        u == The(call).args[2]
        m == The(call).args[3]
    IN (m >= 0 /\ c \in 0..m /\ u \in 0..m) =>
         /\ The(result).ok
         /\ {c2 \in 0..m : combine_numbers(fair_protocol, c2, u, m).res = The(result)} = {c}
         /\ \A r \in 0..m :
              \E c2 \in 0..m : combine_numbers(fair_protocol, c2, u, m).res = Ok(r)

\* C7's case: the user always answers 0, and the committed 3 comes out as 3
C7_Witness ==
  /\ Called("combine_numbers")
  /\ The(call).args = <<3, 0, 5>>
  /\ The(result) = Ok(3)

\* C8: for max_value < 0 generate_secure_random raises ValueError and returns
\* no number, and generate_fair_random raises it too, having drawn no key and
\* computed no digest.
C8_NegativeRangeFails ==
  (Called("generate_secure_random") \/ Called("generate_fair_random")) =>
    (The(call).args[1] < 0 =>
       /\ The(result) = Raise("ValueError")
       /\ entropy = NoEntropy)

\* C8's case: generate_fair_random(-1) has raised
C8_Witness ==
  /\ Called("generate_fair_random")
  /\ The(call).args = <<0 - 1>>
  /\ The(result) = Raise("ValueError")
  /\ entropy.token_bytes = 0

----------------------------------------------------------------------------
(* The dice *)

\* the integers a face of the model's command lines can be
FaceValues == (0 - 9)..9

\* the tokens of an argument, and whether one of them is no integer
Tokens(arg) == Split(arg, ",")
IsInteger(tok) == \E n \in FaceValues : Strip(tok) \in {StrOf(n), <<"+">> \o StrOf(n)}

\* the command line names a dice that may not be constructed
Refused(args) ==
  \E i \in 1..Len(args) :
    \/ Len(Tokens(args[i])) # FaceCount
    \/ \E k \in 1..Len(Tokens(args[i])) : ~IsInteger(Tokens(args[i])[k])

\* every dice of the game has six faces, each an integer
SixFaces ==
  \A i \in 1..Len(dice_list) :
    /\ Len(dice_list[i].faces) = FaceCount
    /\ \A k \in 1..FaceCount : dice_list[i].faces[k] \in FaceValues

\* C11: every Dice holds six integer faces in every state; a command line with
\* a dice of another face count or with a face that is no integer is refused
\* and no Dice of it is kept; and once the dice are constructed no step of the
\* game (selection, roll, lookup, probability table) changes them.
C11_DiceInvariant ==
  /\ [](SixFaces
        /\ ((call # None /\ The(call).op = "parse_dice_list") =>
              LET args == The(call).args[1]
              IN IF Refused(args)
                 THEN The(result) = Raise("ValueError") /\ dice_list = << >> /\ pc = "done"
                 ELSE The(result).ok => dice_list = The(result).val))
  /\ [][pc # "main" => dice_list' = dice_list]_vars

\* C11's case: the help of the dice choice has shown the probability table of
\* the three dice parsed from the command line
C11_Witness ==
  /\ pc = "dice_choice"
  /\ Len(dice_list) = 3
  /\ dice_list[3].faces = <<7, 5, 3, 7, 5, 3>>
  /\ \E i \in 1..Len(out) : out[i].ev = "table"

----------------------------------------------------------------------------
(* The order of the game *)

\* the phase of play_game a position belongs to: 1 first player, 2 dice
\* selection, 3 the computer's roll, 4 the user's roll, 5 comparison, 6 over
Phase(p) ==
  CASE p \in {"determine_first_player", "first_choice", "first_reveal"} -> 1
    [] p \in {"perform_dice_selection", "dice_choice"} -> 2
    [] p \in {"my_roll", "my_roll_choice", "my_roll_reveal"} -> 3
    [] p \in {"your_roll", "your_roll_choice", "your_roll_reveal"} -> 4
    [] p = "compare" -> 5
    [] p = "done" -> 6
    [] OTHER -> 0

BothDice == computer_dice # None /\ user_dice # None

\* C12: a game goes through its phases in the order determine-first-player,
\* dice selection, the computer's roll, the user's roll, comparison, never back
\* and never skipping one except to stop; both dice are assigned before any
\* roll starts; and the comparison happens only after both rolls gave a value.
C12_PhaseOrder ==
  /\ [][\/ Phase(pc') = Phase(pc)
        \/ Phase(pc') = Phase(pc) + 1
        \/ pc' = "done"]_vars
  /\ [](/\ Phase(pc) \in {3, 4, 5} => BothDice
        /\ (computer_roll # None \/ user_roll # None) => BothDice
        /\ computer_roll # None => Phase(pc) >= 3
        /\ user_roll # None => Phase(pc) >= 4 /\ computer_roll # None
        /\ Phase(pc) \in {4, 5} => computer_roll # None
        /\ Phase(pc) = 5 => user_roll # None
        /\ (\E i \in 1..Len(out) : out[i].ev = "outcome") =>
             computer_roll # None /\ user_roll # None)

\* C12's case: both rolls have given a value and the comparison is next
C12_Witness ==
  /\ pc = "compare"
  /\ BothDice
  /\ computer_roll # None /\ user_roll # None

----------------------------------------------------------------------------
(* The first move *)

\* the user gave a guess in the first-move round: its combine_numbers call is
\* the last call made, until the first roll commits
Guessed ==
  /\ Phase(pc) = 2 \/ pc = "my_roll"
  /\ call # None
  /\ The(call).op = "combine_numbers"

Committed == The(call).args[1]
Guess == The(call).args[2]
Combined == The(result).val

\* the dice choices announced so far in the selection, in their order
Choices == SelectSeq(out, LAMBDA e : e.ev = "choose")

\* C13: when the user gave a guess in the first-move round, the user moves
\* first and chooses a dice first if and only if the guess equals the
\* computer's committed number, and otherwise the computer does; with
\* committed 1 and guess 0 the computer moves first.
C13_FirstMoveRule ==
  Guessed =>
    /\ computer_goes_first <=> (Guess # Committed)
    /\ (Committed = 1 /\ Guess = 0) => computer_goes_first
    /\ pc = "dice_choice" =>
         /\ user_dice = None
         /\ (computer_dice # None) <=> (Guess # Committed)
    /\ pc = "my_roll" =>
         /\ Len(Choices) = 2
         /\ Choices[1].data[1] = (IF Guess = Committed THEN "user" ELSE "computer")
         /\ Choices[2].data[1] = (IF Guess = Committed THEN "computer" ELSE "user")

\* C13's case: committed 1, guess 0, and the computer has chosen its dice
\* before the user
C13_Witness ==
  /\ Guessed /\ pc = "my_roll"
  /\ Committed = 1 /\ Guess = 0
  /\ computer_goes_first
  /\ Choices[1].data[1] = "computer"

\* C14 as stated: the computer moves first exactly when the guess does not
\* match the combined number (c + g) mod 2, the user exactly when it matches.
C14_GuessAgainstCombined ==
  Guessed => (computer_goes_first <=> (Guess # Combined))

\* C14, amended: for every committed number c and guess g in 0..1 the computer
\* moves first exactly when g differs from c, which is exactly when the
\* combined number (c + g) mod 2 is 1; the user moves first exactly when g
\* equals c, which is when the combined number is 0.
C14_FirstMoveFromCombined ==
  Guessed =>
    /\ Committed \in 0..FirstMoveMax /\ Guess \in 0..FirstMoveMax
    /\ Combined = (Committed + Guess) % (FirstMoveMax + 1)
    /\ computer_goes_first <=> (Combined = 1)
    /\ computer_goes_first <=> (Guess # Committed)
    /\ ~computer_goes_first <=> (Combined = 0)

\* C14's case: committed 1 and guess 1 combine to 0, which the guess does not
\* match, and the user moves first
C14_Witness ==
  /\ Guessed /\ pc = "dice_choice"
  /\ Committed = 1 /\ Guess = 1 /\ Combined = 0
  /\ ~computer_goes_first
  /\ computer_dice = None

----------------------------------------------------------------------------
(* The numbers combined *)

\* the game has called combine_numbers in the round that is now revealed
Combining ==
  /\ Phase(pc) \in 1..6
  /\ call # None
  /\ The(call).op = "combine_numbers"

\* the last line printed rejects the entry or answers a help request
Reprompted == Len(out) > 0 /\ out[Len(out)].ev \in {"invalid", "help", "table"}

\* C15: in every round of every game, whatever the user types, the committed
\* number and the user's number passed to combine_numbers lie in
\* 0..maxValue of the round (1 for the first move, 5 for a roll), so the call
\* returns a value in that range; an invalid entry or a help request is
\* answered with a message and asked again, without a number being taken.
C15_CombineInputsInRange ==
  /\ [](/\ Combining =>
             /\ The(call).args[3] = RoundMax(round)
             /\ The(call).args[1] \in 0..RoundMax(round)
             /\ The(call).args[2] \in 0..RoundMax(round)
             /\ The(result).ok /\ The(result).val \in 0..RoundMax(round)
        /\ computer_number # None => The(computer_number) \in 0..The(max_value)
        /\ user_number # None => The(user_number) \in 0..The(max_value)
        /\ max_value # None => The(max_value) = RoundMax(round))
  /\ [][retries' # retries =>
          /\ Reprompted'
          /\ pc' = pc /\ user_number' = user_number /\ user_number = None
          /\ call' = call]_vars

\* C15's case: in a roll round an entry was rejected, then 5 was taken, and
\* the numbers 5 and 5 were combined for the range 0..5
C15_Witness ==
  /\ Combining /\ pc = "your_roll"
  /\ The(call).args = <<5, 5, 5>>
  /\ The(result) = Ok(4)
  /\ \E i \in 1..Len(out) : out[i].ev = "invalid" /\ out[i].round = round

----------------------------------------------------------------------------
(* The rolls *)

\* the roll lines printed so far
Rolls == SelectSeq(out, LAMBDA e : e.ev = "roll")

\* the dice of a player, as the entry of the dice list it was chosen from
DiceOf(who) == dice_list[The(IF who = "computer" THEN computer_dice ELSE user_dice) + 1]

\* a roll round has just been resolved: its combine_numbers call is the last
\* call made
Rolled == Combining /\ pc \in {"your_roll", "compare", "done"} /\ round >= 2

\* C16: in every roll round that is not aborted the roll result is the face,
\* at index (committed number + user's number) mod 6, of the rolling player's
\* dice (the computer's for the first roll, the user's for the second); the
\* index lies in 0..5; get_face_value fails for every index outside 0..5; and
\* no call of it fails during a game.
C16_RollResolution ==
  /\ Rolled =>
       LET index == (Committed + Guess) % FaceCount
           who == IF round = 2 THEN "computer" ELSE "user"
           value == IF round = 2 THEN computer_roll ELSE user_roll
       IN /\ index \in 0..5
          /\ Combined = index
          /\ value = Some(DiceOf(who).faces[index + 1])
          /\ get_face_value(DiceOf(who), index) = Ok(The(value))
          /\ Len(Rolls) = 1
          /\ Rolls[1].data = <<IF round = 2 THEN "my" ELSE "your", index, The(value)>>
  /\ \A i \in 1..Len(dice_list) : \A index \in (0 - MaxArg)..MaxArg :
       get_face_value(dice_list[i], index).ok <=> index \in 0..5
  /\ ret \in {None, Some(Ok(TRUE)), Some(Ok(FALSE))}
  /\ \A i \in 1..Len(out) : out[i].ev # "error"

\* C16's case: the user's roll with committed 3 and the user's number 4 has
\* taken the face at index 1 of the user's dice, which differs from the face
\* at index 1 of the computer's dice
C16_Witness ==
  /\ Rolled /\ round = 3 /\ pc = "compare"
  /\ Committed = 3 /\ Guess = 4 /\ Combined = 1
  /\ user_roll = Some(DiceOf("user").faces[2])
  /\ DiceOf("user").faces[2] # DiceOf("computer").faces[2]

----------------------------------------------------------------------------
(* The dice selected *)

\* C17: whenever the dice selection has completed, the computer's dice and the
\* user's dice are two different entries of the dice list, whoever chose first
\* and whichever dice the first chooser took.
C17_DistinctDice ==
  BothDice => The(computer_dice) # The(user_dice)

\* C18: once the user has chosen X at a prompt (the first-move guess, the dice
\* choice or a roll) the game has stopped there: X is the last line of the
\* game, and no prompt, commitment, dice selection, roll or outcome follows it.
C18_ExitEndsGame ==
  (\E i \in 1..Len(out) : ExitInput(out[i])) =>
    /\ pc = "done"
    /\ ExitInput(out[Len(out)])
    /\ ret = Some(Ok(FALSE))

----------------------------------------------------------------------------
(* The outcome *)

\* the outcome lines printed so far
Outcomes == SelectSeq(out, LAMBDA e : e.ev = "outcome")

\* play_game has returned
Returned == pc = "done" /\ ret # None

\* C19: a game that completes both rolls announces exactly one outcome: a user
\* win if and only if user_roll > computer_roll, a computer win if and only if
\* computer_roll > user_roll, a tie if and only if they are equal, the rolls
\* being the faces rolled on the computer's and on the user's dice; play_game
\* returns True exactly then, and False when the game was abandoned before.
C19_OutcomeCorrect ==
  /\ Len(Outcomes) <= 1
  /\ Len(Outcomes) = 1 <=> ret = Some(Ok(TRUE))
  /\ Returned =>
       /\ ret = Some(Ok(TRUE)) <=> (computer_roll # None /\ user_roll # None)
       /\ ret = Some(Ok(FALSE)) <=> (computer_roll = None \/ user_roll = None)
  /\ ret = Some(Ok(TRUE)) =>
       LET u == The(user_roll)
           c == The(computer_roll)
           announced == Outcomes[1].data[1]
       IN /\ pc = "done"
          /\ u \in {DiceOf("user").faces[k] : k \in 1..FaceCount}
          /\ c \in {DiceOf("computer").faces[k] : k \in 1..FaceCount}
          /\ announced = "user" <=> u > c
          /\ announced = "computer" <=> c > u
          /\ announced = "tie" <=> u = c
          /\ announced \in {"user", "computer", "tie"}

\* C19's case: the user rolled higher than the computer and the user's win
\* was announced
C19_Witness ==
  /\ Returned /\ ret = Some(Ok(TRUE))
  /\ The(user_roll) > The(computer_roll)
  /\ Outcomes = <<Ev("outcome", round, <<"user">>)>>

----------------------------------------------------------------------------
(* Termination *)

\* The program takes its next step whenever it can: it runs on its own between
\* prompts, and the user answers every prompt. MaxRetries bounds the invalid
\* entries and help requests of a game, so the user does not repeat them for ever.
SpecLive == Spec /\ WF_vars(Next)

\* what an invalid entry or a help request must leave alone: everything but
\* the lines printed and the count of such entries
Progress == <<dice_list, fair_protocol, computer_dice, user_dice, computer_goes_first,
              pc, max_value, computer_number, hmac_value, key, user_number,
              available_dice, computer_roll, user_roll, ret, round, entropy,
              call, result>>

\* C20: when the user answers every prompt, and does not enter invalid lines
\* or '?' for ever, every game terminates, with an announced outcome or by
\* exit, after at most three protocol rounds and one dice choice of the user;
\* an invalid entry or a help request changes nothing of the game and the
\* same prompt is asked again.
C20_Termination ==
  /\ <>(pc = "done")
  /\ [](pc = "done" =>
          \/ Len(Outcomes) = 1 /\ ret = Some(Ok(TRUE))
          \/ ExitInput(out[Len(out)]) /\ ret = Some(Ok(FALSE)))
  /\ [](round <= 3 /\ entropy.randbelow <= 4 /\ entropy.token_bytes <= 3)
  /\ [][round' \in {round, round + 1}]_vars
  /\ [][user_dice # None => user_dice' = user_dice]_vars
  /\ [][retries' # retries => Reprompted' /\ UNCHANGED Progress]_vars

\* C20's case: a game with a rejected entry has ended after its third round
\* with an outcome
C20_Witness ==
  /\ pc = "done"
  /\ round = 3
  /\ retries = MaxRetries
  /\ Len(Outcomes) = 1

====
